---- MODULE Spec2Model ----
(***************************************************************************)
(* Model of the RAG backend: the /api/rag answer pipeline (app.py, rag.py) *)
(* and the /api/upload ingestion pipeline (app.py, qdrant.py), together    *)
(* with the external collaborators they call: the file system holding the  *)
(* prompt template, the Qdrant store, the embedding and the LLM provider.  *)
(***************************************************************************)
EXTENDS Integers, Sequences, FiniteSets, TLC

(* ------------------------------ bounds --------------------------------- *)
MaxUploads == 2
MaxAnswers == 1
MaxChunks == 2
MaxFsChanges == 1

(* -------------------------- program constants -------------------------- *)
COLLECTION_NAME == "Wiki_2"
TopK == 4

(* ------------------------------ inputs --------------------------------- *)
UReqs == 1..MaxUploads
AReqs == 1..MaxAnswers
Urls == {"u1", "u2"}
Colls == {COLLECTION_NAME, "c1"}
NoPath == "none"
Paths == {"p1"}
Missing == <<"missing">>

\* A question is a sequence of text pieces; "{x}" is text that carries braces.
Questions == {<<"q1">>, <<"q2", "{x}">>}

\* A template file is a sequence of pieces: literal text, a replacement field
\* ({question}, {context}, {other}), an escaped field ({{context}}) or a lone brace.
Templates ==
    { <<"lit", "{question}">>,
      <<"{{context}}", "{question}">>,
      <<"{context}", "{question}">>,
      <<"{other}", "{question}">>,
      <<"{", "{question}">> }

\* What the LLM may return as message content.
Contents == {"", "a1"}

NoErr == "none"

VARIABLES files, fsOps, collections, points, tick, up, ans

vars == <<files, fsOps, collections, points, tick, up, ans>>

(* --------------------------- pure functions ---------------------------- *)

\* str.format(question=q) on one piece of the template
FormatErr(tok) ==
    IF tok \in {"{context}", "{other}"} THEN "KeyError"
    ELSE IF tok = "{" THEN "ValueError"
    ELSE NoErr

FormatTok(tok, q) ==
    IF tok = "{question}" THEN q
    ELSE IF tok = "{{context}}" THEN <<"{context}">>
    ELSE <<tok>>

RECURSIVE FormatFrom(_, _, _)
FormatFrom(t, q, i) ==
    IF i > Len(t) THEN [err |-> NoErr, out |-> <<>>]
    ELSE IF FormatErr(t[i]) # NoErr THEN [err |-> FormatErr(t[i]), out |-> <<>>]
    ELSE LET rest == FormatFrom(t, q, i + 1)
         IN  IF rest.err # NoErr THEN rest
             ELSE [err |-> NoErr, out |-> FormatTok(t[i], q) \o rest.out]

\* template.format(question=question)
Format(t, q) == FormatFrom(t, q, 1)

\* ChatPromptTemplate.from_template: the input variables of the rendered text
InputVariables(text) ==
    {text[i] : i \in {j \in 1..Len(text) : text[j] \in {"{context}", "{x}", "{other}"}}}

\* the keys the chain feeds the prompt with
ChainKeys == {"{context}", "{question}"}

RECURSIVE SubSeqAt(_, _, _)
SubSeqAt(s, t, i) ==
    IF i + Len(t) - 1 > Len(s) THEN FALSE
    ELSE IF SubSeq(s, i, i + Len(t) - 1) = t THEN TRUE
    ELSE SubSeqAt(s, t, i + 1)

\* t occurs in s as a contiguous run
Contains(s, t) == SubSeqAt(s, t, 1)

Min(a, b) == IF a < b THEN a ELSE b

RECURSIVE Pick(_, _, _)
\* the elements of s at the positions in idx, in store order
Pick(s, idx, i) ==
    IF i > Len(s) THEN <<>>
    ELSE IF i \in idx THEN <<s[i]>> \o Pick(s, idx, i + 1)
    ELSE Pick(s, idx, i + 1)

\* the results a top-k search over a collection may return
SearchResults(stored) ==
    { Pick(stored, idx, 1) :
        idx \in {x \in SUBSET (1..Len(stored)) : Cardinality(x) = Min(TopK, Len(stored))} }

\* loader.load_and_split + the source_url tagging loop: n chunks of the page at url
Documents(r, url, n) ==
    [i \in 1..n |-> [text |-> i, source_url |-> url, by |-> r]]

SeedChunk == [text |-> 0, source_url |-> "seed", by |-> 0]

(* ------------------------------- state --------------------------------- *)

UpIdle ==
    [pc |-> "idle", via |-> "none", url |-> "none", coll |-> "none", docs |-> <<>>,
     err |-> NoErr, status |-> 0, failedAt |-> "none", fetched |-> FALSE,
     inserted |-> 0, prior |-> FALSE, before |-> 0, after |-> 0, ord |-> 0]

AnsIdle ==
    [pc |-> "idle", question |-> <<>>, path |-> NoPath, template |-> <<>>,
     prompt |-> <<>>,
     context |-> <<>>, llmPrompt |-> <<>>, llmContext |-> <<>>, content |-> "",
     answer |-> "", outContext |-> <<>>, err |-> NoErr, status |-> 0,
     calls |-> <<>>, returned |-> <<>>]

Init ==
    /\ files \in [Paths -> Templates \cup {Missing}]
    /\ fsOps = 0
    /\ collections \in {{}, {COLLECTION_NAME}}
    /\ points = [c \in Colls |-> IF c \in collections THEN <<SeedChunk>> ELSE <<>>]
    /\ tick = 0
    /\ up = [r \in UReqs |-> UpIdle]
    /\ ans = [r \in AReqs |-> AnsIdle]


(* ------------------------- ingestion pipeline -------------------------- *)

CreateNeverFails(c) == FALSE

\* client.create_collection refuses a name the store already holds
CreateFails(c) == c \in collections

CollectionsRolledBack(c) == collections \ {c}

\* the store's set of collections after an upload request has failed: the
\* handler only maps the exception to a 500, nothing is deleted
CollectionsAfterFailure(c) == collections

StoredDedup(old, docs) ==
    IF docs # <<>> /\ \E i \in 1..Len(old) : old[i].source_url = docs[1].source_url
    THEN old
    ELSE old \o docs

\* add_documents: every chunk becomes a new point with a fresh id
Stored(old, docs) == old \o docs

\* an exception leaves upload_documents / the endpoint
UpFail(u, kind, step) ==
    [u EXCEPT !.pc = "done", !.err = kind, !.failedAt = step,
              !.status = IF u.via = "api" THEN 500 ELSE 0]

OnLoadErrorContinue(r, u) ==
    [u EXCEPT !.pc = "insert", !.err = "FetchError", !.docs = Documents(r, u.url, 1)]

\* load_and_split raised: logged and re-raised, add_documents is not reached
OnLoadError(r, u) == UpFail(u, "FetchError", "load")

\* some earlier /api/upload request for collection c failed at fetch or insert
FailedUploadFor(c) ==
    \E r \in UReqs : /\ up[r].pc = "done"
                     /\ up[r].via = "api"
                     /\ up[r].coll = c
                     /\ up[r].failedAt \in {"load", "insert"}

\* POST /api/upload arrives
UploadRequest(r, u, c) ==
    /\ up[r].pc = "idle"
    /\ up' = [up EXCEPT ![r] = [@ EXCEPT !.pc = "create", !.via = "api", !.url = u,
                                         !.coll = c, !.prior = FailedUploadFor(c)]]
    /\ UNCHANGED <<files, fsOps, collections, points, tick, ans>>

\* create_collection(payload.collection_name)
CreateCollection(r) ==
    LET u == up[r] IN
    /\ u.pc = "create"
    /\ \/ /\ CreateFails(u.coll)
          /\ up' = [up EXCEPT ![r] = UpFail(u, "CollectionAlreadyExists", "create")]
          /\ collections' = CollectionsAfterFailure(u.coll)
       \/ /\ up' = [up EXCEPT ![r] = UpFail(u, "StoreUnavailable", "create")]
          /\ collections' = CollectionsAfterFailure(u.coll)
       \/ /\ ~CreateFails(u.coll)
          /\ collections' = collections \cup {u.coll}
          /\ up' = [up EXCEPT ![r] = [@ EXCEPT !.pc = "load"]]
    /\ UNCHANGED <<files, fsOps, points, tick, ans>>

\* loader.load_and_split(text_splitter) and the source_url tagging
LoadAndSplit(r) ==
    LET u == up[r] IN
    /\ u.pc = "load"
    /\ \/ /\ up' = [up EXCEPT ![r] = OnLoadError(r, u)]
          /\ collections' = CollectionsAfterFailure(u.coll)
       \/ /\ \E n \in 0..MaxChunks :
                up' = [up EXCEPT ![r] = [@ EXCEPT !.pc = "insert", !.fetched = TRUE,
                                                  !.docs = Documents(r, u.url, n)]]
          /\ UNCHANGED collections
    /\ UNCHANGED <<files, fsOps, points, tick, ans>>

\* dynamic_vector_store.add_documents(documents)
AddDocuments(r) ==
    LET u == up[r]
        n == Len(u.docs)
        old == points[u.coll]
    IN
    /\ u.pc = "insert"
    /\ \/ /\ n = 0 \/ u.coll \in collections
          /\ LET new == Stored(old, u.docs) IN
             /\ points' = [points EXCEPT ![u.coll] = new]
             /\ up' = [up EXCEPT ![r] =
                         [@ EXCEPT !.pc = "done",
                                   !.status = IF u.via = "api" THEN 200 ELSE 0,
                                   !.inserted = Len(new) - Len(old),
                                   !.before = Len(old), !.after = Len(new),
                                   !.ord = tick + 1]]
          /\ tick' = tick + 1
          /\ UNCHANGED collections
       \/ /\ n > 0
          /\ \E k \in 0..(n - 1) :
                /\ u.coll \in collections \/ k = 0
                /\ LET new == Stored(old, SubSeq(u.docs, 1, k)) IN
                   /\ points' = [points EXCEPT ![u.coll] = new]
                   /\ up' = [up EXCEPT ![r] =
                               [UpFail(u, IF u.coll \in collections
                                          THEN "EmbeddingProviderError"
                                          ELSE "CollectionNotFound", "insert")
                                  EXCEPT !.inserted = Len(new) - Len(old),
                                         !.before = Len(old), !.after = Len(new)]]
          /\ collections' = CollectionsAfterFailure(u.coll)
          /\ UNCHANGED tick
    /\ UNCHANGED <<files, fsOps, ans>>

\* upload_documents(url, collection_name) called on its own
IngestDirect(r, u, c) ==
    /\ up[r].pc = "idle"
    /\ up' = [up EXCEPT ![r] = [@ EXCEPT !.pc = "load", !.via = "direct",
                                         !.url = u, !.coll = c]]
    /\ UNCHANGED <<files, fsOps, collections, points, tick, ans>>

\* create_collection(name) called on its own
CreateDirect(c) ==
    /\ ~CreateFails(c)
    /\ collections' = collections \cup {c}
    /\ UNCHANGED <<files, fsOps, points, tick, up, ans>>


(* --------------------------- answer pipeline --------------------------- *)

\* os.path.exists(template_path)
PathExists(p) == p \in Paths /\ files[p] # Missing

LoadPromptTemplateFallback(p, q) ==
    IF ~PathExists(p)
    THEN [err |-> NoErr, template |-> <<"lit", "{question}">>,
          out |-> Format(<<"lit", "{question}">>, q).out]
    ELSE [err |-> Format(files[p], q).err, template |-> files[p],
          out |-> Format(files[p], q).out]

\* load_prompt_template: the existence check, the read and str.format
LoadPromptTemplate(p, q) ==
    IF ~PathExists(p)
    THEN [err |-> "FileNotFoundError", template |-> <<>>, out |-> <<>>]
    ELSE [err |-> Format(files[p], q).err, template |-> files[p],
          out |-> Format(files[p], q).out]

StatusOfCallerFixable(kind) ==
    IF kind \in {"FileNotFoundError", "HTTPException", "KeyError", "ValueError"}
    THEN 400 ELSE 500

\* the exception handlers of chatbot_endpoint
StatusOf(kind) ==
    IF kind \in {"FileNotFoundError", "HTTPException"} THEN 400 ELSE 500

AbortRetry(a, kind) ==
    IF a.calls # <<>> /\ Cardinality({i \in 1..Len(a.calls) : a.calls[i] = a.calls[Len(a.calls)]}) = 1
    THEN [a EXCEPT !.pc = a.calls[Len(a.calls)]]
    ELSE [a EXCEPT !.pc = "done", !.err = kind, !.status = StatusOf(kind)]

\* an exception leaves get_answer (logged, re-raised) and reaches the endpoint
Abort(a, kind) ==
    [a EXCEPT !.pc = "done", !.err = kind, !.status = StatusOf(kind)]

StepAfterLLMFirst(step) ==
    CASE step = "render" -> "embed"
      [] step = "embed" -> "llm"
      [] step = "llm" -> "retrieve"
      [] step = "retrieve" -> "done"

\* the order in which the chain runs its steps
StepAfter(step) ==
    CASE step = "render" -> "embed"
      [] step = "embed" -> "retrieve"
      [] step = "retrieve" -> "llm"
      [] step = "llm" -> "done"

AnswerOrDefault(content) == IF content = "" THEN "No answer found." ELSE content

\* get_answer: answer = response['response'].content
Answer(content) == content

\* a step has returned: the next one is due, or the response is built
Advance(a, step) ==
    LET b == [a EXCEPT !.returned = Append(@, step), !.pc = StepAfter(step)]
    IN  IF b.pc = "done"
        THEN [b EXCEPT !.status = 200, !.answer = Answer(b.content),
                       !.outContext = b.context]
        ELSE b

\* a provider is called
Call(a, step) == [a EXCEPT !.calls = Append(@, step), !.pc = step \o "Wait"]

\* POST /api/rag arrives
RagRequest(r, q, p) ==
    /\ ans[r].pc = "idle"
    /\ ans' = [ans EXCEPT ![r] = [@ EXCEPT !.pc = "validate", !.question = q, !.path = p]]
    /\ UNCHANGED <<files, fsOps, collections, points, tick, up>>

\* chatbot_endpoint: validate the template path
Validate(r) ==
    LET a == ans[r] IN
    /\ a.pc = "validate"
    /\ ans' = [ans EXCEPT ![r] = IF PathExists(a.path)
                                 THEN [a EXCEPT !.pc = "render"]
                                 ELSE Abort(a, "HTTPException")]
    /\ UNCHANGED <<files, fsOps, collections, points, tick, up>>

\* create_chain: load_prompt_template and ChatPromptTemplate.from_template
Render(r) ==
    LET a == ans[r]
        f == LoadPromptTemplate(a.path, a.question)
        b == [a EXCEPT !.calls = Append(@, "render"), !.template = f.template]
    IN
    /\ a.pc = "render"
    /\ ans' = [ans EXCEPT ![r] = IF f.err # NoErr
                                 THEN Abort(b, f.err)
                                 ELSE Advance([b EXCEPT !.prompt = f.out], "render")]
    /\ UNCHANGED <<files, fsOps, collections, points, tick, up>>

\* the retriever embeds the question
EmbedCall(r) ==
    /\ ans[r].pc = "embed"
    /\ ans' = [ans EXCEPT ![r] = Call(@, "embed")]
    /\ UNCHANGED <<files, fsOps, collections, points, tick, up>>

EmbedReturn(r) ==
    LET a == ans[r] IN
    /\ a.pc = "embedWait"
    /\ \/ ans' = [ans EXCEPT ![r] = Advance(a, "embed")]
       \/ ans' = [ans EXCEPT ![r] = Abort(a, "EmbeddingProviderError")]
    /\ UNCHANGED <<files, fsOps, collections, points, tick, up>>

RetrieverCollectionLastUploaded ==
    IF \E r \in UReqs : up[r].fetched
    THEN up[CHOOSE r \in UReqs : up[r].fetched /\ \A o \in UReqs : up[o].fetched => r >= o].coll
    ELSE COLLECTION_NAME

\* the collection the module-level vector_store, and so the retriever, is bound
\* to; upload_documents builds its own store object and leaves this one alone
RetrieverCollection == COLLECTION_NAME

\* the retriever searches the default collection
SearchCall(r) ==
    /\ ans[r].pc = "retrieve"
    /\ ans' = [ans EXCEPT ![r] = Call(@, "retrieve")]
    /\ UNCHANGED <<files, fsOps, collections, points, tick, up>>

SearchReturn(r) ==
    LET a == ans[r] IN
    /\ a.pc = "retrieveWait"
    /\ \/ /\ RetrieverCollection \in collections
          /\ \E res \in SearchResults(points[RetrieverCollection]) :
                ans' = [ans EXCEPT ![r] = Advance([a EXCEPT !.context = res], "retrieve")]
       \/ /\ RetrieverCollection \notin collections
          /\ ans' = [ans EXCEPT ![r] = Abort(a, "CollectionNotFound")]
       \/ ans' = [ans EXCEPT ![r] = Abort(a, "StoreUnavailable")]
    /\ UNCHANGED <<files, fsOps, collections, points, tick, up>>

\* formatted_prompt | LLM: the prompt is filled in and submitted
LLMCall(r) ==
    LET a == ans[r] IN
    /\ a.pc = "llm"
    /\ ans' = [ans EXCEPT ![r] =
                 IF InputVariables(a.prompt) \subseteq ChainKeys
                 THEN Call([a EXCEPT !.llmPrompt = a.prompt, !.llmContext = a.context], "llm")
                 ELSE Abort(a, "KeyError")]
    /\ UNCHANGED <<files, fsOps, collections, points, tick, up>>

LLMReturn(r) ==
    LET a == ans[r] IN
    /\ a.pc = "llmWait"
    /\ \/ \E c \in Contents :
             ans' = [ans EXCEPT ![r] = Advance([a EXCEPT !.content = c], "llm")]
       \/ ans' = [ans EXCEPT ![r] = Abort(a, "LLMProviderError")]
    /\ UNCHANGED <<files, fsOps, collections, points, tick, up>>

\* the template file is owned by the environment, which may rewrite or remove it
FsChange(p, t) ==
    /\ fsOps < MaxFsChanges
    /\ t # files[p]
    /\ files' = [files EXCEPT ![p] = t]
    /\ fsOps' = fsOps + 1
    /\ UNCHANGED <<collections, points, tick, up, ans>>

(* ---------------------------- specifications --------------------------- *)

Next ==
    \/ \E r \in UReqs, u \in Urls, c \in Colls : UploadRequest(r, u, c)
    \/ \E r \in UReqs : CreateCollection(r)
    \/ \E r \in UReqs : LoadAndSplit(r)
    \/ \E r \in UReqs : AddDocuments(r)
    \/ \E r \in AReqs, q \in Questions, p \in Paths \cup {NoPath} : RagRequest(r, q, p)
    \/ \E r \in AReqs : Validate(r)
    \/ \E r \in AReqs : Render(r)
    \/ \E r \in AReqs : EmbedCall(r)
    \/ \E r \in AReqs : EmbedReturn(r)
    \/ \E r \in AReqs : SearchCall(r)
    \/ \E r \in AReqs : SearchReturn(r)
    \/ \E r \in AReqs : LLMCall(r)
    \/ \E r \in AReqs : LLMReturn(r)
    \/ \E p \in Paths, t \in Templates \cup {Missing} : FsChange(p, t)

\* the API server: concurrent /api/rag and /api/upload requests
Spec == Init /\ [][Next]_vars

NextRag ==
    \/ \E r \in AReqs, q \in Questions, p \in Paths \cup {NoPath} : RagRequest(r, q, p)
    \/ \E r \in AReqs : Validate(r)
    \/ \E r \in AReqs : Render(r)
    \/ \E r \in AReqs : EmbedCall(r)
    \/ \E r \in AReqs : EmbedReturn(r)
    \/ \E r \in AReqs : SearchCall(r)
    \/ \E r \in AReqs : SearchReturn(r)
    \/ \E r \in AReqs : LLMCall(r)
    \/ \E r \in AReqs : LLMReturn(r)
    \/ \E p \in Paths, t \in Templates \cup {Missing} : FsChange(p, t)

\* /api/rag requests alone, over any initial store and a changing template file
SpecRag == Init /\ [][NextRag]_vars

NextUpload ==
    \/ \E r \in UReqs, u \in Urls, c \in Colls : UploadRequest(r, u, c)
    \/ \E r \in UReqs : CreateCollection(r)
    \/ \E r \in UReqs : LoadAndSplit(r)
    \/ \E r \in UReqs : AddDocuments(r)

\* the ingestion pipeline reads no template file
InitIngest == Init /\ files = [p \in Paths |-> Missing]

\* concurrent /api/upload requests alone
SpecUpload == InitIngest /\ [][NextUpload]_vars

NextIngest ==
    \/ \E c \in Colls : CreateDirect(c)
    \/ \E r \in UReqs, u \in Urls, c \in Colls : IngestDirect(r, u, c)
    \/ \E r \in UReqs : LoadAndSplit(r)
    \/ \E r \in UReqs : AddDocuments(r)

\* the ingestion functions of qdrant.py called on their own
SpecIngest == InitIngest /\ [][NextIngest]_vars


\* requests are interchangeable: request r is taken once request r - 1 has arrived
UploadsInOrder(r) == IF r = 1 THEN TRUE ELSE up[r - 1].pc # "idle"
AnswersInOrder(r) == IF r = 1 THEN TRUE ELSE ans[r - 1].pc # "idle"

\* a template file that renders: {{context}} is left as the chain's slot
InitRetrieve == Init /\ files = [p \in Paths |-> <<"{{context}}", "{question}">>]

NextRetrieve ==
    \/ \E r \in UReqs, c \in Colls : UploadsInOrder(r) /\ UploadRequest(r, "u1", c)
    \/ \E r \in UReqs : CreateCollection(r)
    \/ \E r \in UReqs : LoadAndSplit(r)
    \/ \E r \in UReqs : AddDocuments(r)
    \/ \E r \in AReqs : AnswersInOrder(r) /\ RagRequest(r, <<"q1">>, "p1")
    \/ \E r \in AReqs : Validate(r)
    \/ \E r \in AReqs : Render(r)
    \/ \E r \in AReqs : EmbedCall(r)
    \/ \E r \in AReqs : EmbedReturn(r)
    \/ \E r \in AReqs : SearchCall(r)
    \/ \E r \in AReqs : SearchReturn(r)
    \/ \E r \in AReqs : LLMCall(r)
    \/ \E r \in AReqs : LLMReturn(r)

\* /api/upload and /api/rag requests interleaved, over a template that renders
SpecRetrieve == InitRetrieve /\ [][NextRetrieve]_vars

(* ------------------------------- claims -------------------------------- *)

Order == <<"render", "embed", "retrieve", "llm">>
Providers == {"embed", "retrieve", "llm"}
Range(s) == {s[i] : i \in 1..Len(s)}
Count(s, x) == Cardinality({i \in 1..Len(s) : s[i] = x})
IsPrefix(s, t) == Len(s) <= Len(t) /\ SubSeq(t, 1, Len(s)) = s

\* the code's exceptions that stand for the taxonomy's TemplateNotFound
TemplateNotFound == {"FileNotFoundError", "HTTPException"}
\* the code's exceptions raised by a malformed template or an unknown placeholder
TemplateFormatError == {"KeyError", "ValueError"}

PathMissing(p) == p \notin Paths \/ files[p] = Missing

\* C1: whenever a request checks a template path that does not exist (the
\* endpoint's validation or load_prompt_template), that step ends the request
\* with TemplateNotFound and status 400, and a request that ended so has
\* called neither the embedding provider, the vector store nor the LLM.
C1_MissingTemplateStopsBeforeProviders ==
    /\ [](\A r \in AReqs :
            ans[r].err \in TemplateNotFound =>
               /\ ans[r].pc = "done"
               /\ Range(ans[r].calls) \cap Providers = {}
               /\ ans[r].returned = <<>>)
    /\ [][\A r \in AReqs :
            (/\ ans[r].pc \in {"validate", "render"}
             /\ PathMissing(ans[r].path)
             /\ ans'[r] # ans[r])
            => (/\ ans'[r].pc = "done"
                /\ ans'[r].err \in TemplateNotFound
                /\ ans'[r].status = 400
                /\ Range(ans'[r].calls) \cap Providers = {})]_vars

\* get_answer's own check met a missing file (removed after the endpoint's check)
C1_Witness ==
    \E r \in AReqs : /\ ans[r].pc = "done"
                     /\ ans[r].err = "FileNotFoundError"
                     /\ ans[r].calls = <<"render">>

HasBothPlaceholders(t) == "{context}" \in Range(t) /\ "{question}" \in Range(t)

\* C2: a request whose template file holds both a {context} and a {question}
\* placeholder gets its prompt assembled (the render step returns), and the
\* prompt it submits to the LLM holds the question text and the context slot
\* filled with the retrieved chunks.
C2_BothPlaceholdersAssemble ==
    \A r \in AReqs :
        (HasBothPlaceholders(ans[r].template) /\ "render" \in Range(ans[r].calls)) =>
            /\ "render" \in Range(ans[r].returned)
            /\ "llm" \in Range(ans[r].calls) =>
                  /\ Contains(ans[r].llmPrompt, ans[r].question)
                  /\ "{context}" \in Range(ans[r].llmPrompt)
                  /\ ans[r].llmContext = ans[r].context

AllSucceeded(a) == a.err = NoErr /\ a.returned = Order

\* C3 as stated: 400 for a missing or an invalid template, 500 for every other
\* failure, 200 only when every step succeeded.
C3_InvalidTemplateIs400 ==
    \A r \in AReqs :
        ans[r].pc = "done" =>
            /\ ans[r].err \in TemplateNotFound \cup TemplateFormatError => ans[r].status = 400
            /\ (ans[r].err \notin TemplateNotFound \cup TemplateFormatError \cup {NoErr})
                  => ans[r].status = 500
            /\ ans[r].status = 200 => AllSucceeded(ans[r])

\* C3 amended: 400 exactly when the template path is missing or does not
\* exist; 500 for every other failure, a malformed template or an unknown
\* placeholder included; 200 exactly when every step succeeded.
C3_MissingIs400RestIs500 ==
    \A r \in AReqs :
        ans[r].pc = "done" =>
            /\ ans[r].status \in {200, 400, 500}
            /\ ans[r].status = 400 <=> ans[r].err \in TemplateNotFound
            /\ ans[r].status = 500 <=> ans[r].err \notin TemplateNotFound \cup {NoErr}
            /\ ans[r].status = 200 <=> AllSucceeded(ans[r])

\* a template with an unknown placeholder was answered 500
C3_Witness ==
    \E r \in AReqs : /\ ans[r].pc = "done"
                     /\ ans[r].err = "KeyError"
                     /\ "{other}" \in Range(ans[r].template)
                     /\ ans[r].status = 500

\* C4: an ingest whose fetch failed ends with FetchError and has inserted
\* nothing: add_documents was not reached and no stored chunk is its own.
C4_FetchErrorInsertsNothing ==
    \A r \in UReqs :
        up[r].err = "FetchError" =>
            /\ up[r].pc = "done"
            /\ ~up[r].fetched
            /\ up[r].inserted = 0
            /\ \A c \in Colls : \A i \in 1..Len(points[c]) : points[c][i].by # r

\* a fetch failed for a collection that exists and holds chunks
C4_Witness ==
    \E r \in UReqs : /\ up[r].err = "FetchError"
                     /\ up[r].coll \in collections
                     /\ Len(points[up[r].coll]) > 0

Succeeded(r) == up[r].pc = "done" /\ up[r].err = NoErr

\* C5 as stated: a second successful ingest of the same URL into the same
\* collection leaves at least one chunk more than the first one left.
C5_ReingestStrictlyGrows ==
    \A r1, r2 \in UReqs :
        (/\ Succeeded(r1) /\ Succeeded(r2)
         /\ up[r1].url = up[r2].url /\ up[r1].coll = up[r2].coll
         /\ up[r1].ord < up[r2].ord)
        => up[r2].after >= up[r1].after + 1

\* C5 amended: every successful ingest adds all the chunks of its fetch (no
\* de-duplication), so a second ingest of the same URL leaves at least the
\* first one's count plus the number of chunks the second fetch produced.
C5_ReingestAddsEveryChunk ==
    /\ \A r \in UReqs :
          Succeeded(r) => /\ up[r].after = up[r].before + Len(up[r].docs)
                          /\ Len(points[up[r].coll]) >= up[r].after
    /\ \A r1, r2 \in UReqs :
          (/\ Succeeded(r1) /\ Succeeded(r2)
           /\ up[r1].url = up[r2].url /\ up[r1].coll = up[r2].coll
           /\ up[r1].ord < up[r2].ord)
          => up[r2].after >= up[r1].after + Len(up[r2].docs)

\* the same URL was ingested twice into one collection, with chunks both times
C5_Witness ==
    \E r1, r2 \in UReqs :
        /\ Succeeded(r1) /\ Succeeded(r2)
        /\ up[r1].url = up[r2].url /\ up[r1].coll = up[r2].coll
        /\ up[r1].ord < up[r2].ord
        /\ Len(up[r1].docs) > 0 /\ Len(up[r2].docs) > 0

\* C6: the steps of one request start in the order render, embed, retrieve,
\* llm; a step starts only when every earlier one has returned, so at most one
\* is in flight, and the LLM is called only after retrieval has returned.
C6_StepsStrictlySequential ==
    \A r \in AReqs :
        /\ IsPrefix(ans[r].calls, Order)
        /\ IsPrefix(ans[r].returned, ans[r].calls)
        /\ Len(ans[r].calls) - Len(ans[r].returned) <= 1
        /\ "llm" \in Range(ans[r].calls) => "retrieve" \in Range(ans[r].returned)

\* the LLM call is in flight
C6_Witness ==
    \E r \in AReqs : /\ ans[r].pc = "llmWait"
                     /\ ans[r].calls = Order
                     /\ ans[r].returned = <<"render", "embed", "retrieve">>

\* C7: a failed request is finished with an error status (400 or 500), never
\* 200; it takes no further step; and no step of a request is run twice.
C7_FailureAbortsWithoutRetry ==
    /\ [](\A r \in AReqs :
            /\ \A s \in Range(Order) : Count(ans[r].calls, s) <= 1
            /\ ans[r].err # NoErr =>
                  /\ ans[r].pc = "done"
                  /\ ans[r].status \in {400, 500}
                  /\ Len(ans[r].calls) - Len(ans[r].returned) <= 1)
    /\ [][\A r \in AReqs : ans[r].err # NoErr => ans'[r] = ans[r]]_vars

\* the LLM call failed after every earlier step had run once
C7_Witness ==
    \E r \in AReqs : /\ ans[r].pc = "done"
                     /\ ans[r].err = "LLMProviderError"
                     /\ ans[r].calls = Order
                     /\ ans[r].status = 500

\* C8 as stated: a request whose steps all succeeded returns a non-empty answer.
C8_AnswerNonEmpty ==
    \A r \in AReqs :
        (ans[r].pc = "done" /\ AllSucceeded(ans[r])) => ans[r].answer # ""

\* C8 amended: a request whose steps all succeeded returns status 200, the
\* LLM's content unchanged as the answer (non-empty when that content is), and
\* the retrieved chunks as the context.
C8_AnswerIsLLMContent ==
    \A r \in AReqs :
        (ans[r].pc = "done" /\ AllSucceeded(ans[r])) =>
            /\ ans[r].status = 200
            /\ ans[r].answer = ans[r].content
            /\ ans[r].content # "" => ans[r].answer # ""
            /\ ans[r].outContext = ans[r].context

\* a request succeeded with a non-empty answer and a retrieved chunk
C8_Witness ==
    \E r \in AReqs : /\ ans[r].pc = "done"
                     /\ ans[r].status = 200
                     /\ ans[r].answer = "a1"
                     /\ ans[r].outContext # <<>>

\* C9: an /api/upload request fetches only after its collection exists; a
\* request that failed at the fetch or insert step leaves the collection in the
\* store; and a request that arrives after such a failure for the same name
\* never gets past the create step: it ends 500 there, without a fetch or an
\* insert.
C9_FailedUploadLeavesCollection ==
    \A r \in UReqs :
        /\ (up[r].via = "api" /\ (up[r].fetched \/ up[r].failedAt \in {"load", "insert"}))
              => up[r].coll \in collections
        /\ up[r].prior =>
              /\ up[r].pc \in {"create", "done"}
              /\ up[r].pc = "done" =>
                    /\ up[r].status = 500
                    /\ up[r].failedAt = "create"
                    /\ ~up[r].fetched
                    /\ up[r].inserted = 0
                    /\ \A i \in 1..Len(points[up[r].coll]) : points[up[r].coll][i].by # r

\* a request that followed a failed upload for the same name was refused
C9_Witness ==
    \E r \in UReqs : /\ up[r].prior
                     /\ up[r].pc = "done"
                     /\ up[r].err = "CollectionAlreadyExists"
                     /\ up[r].status = 500

PastCreate(r) ==
    /\ up[r].via = "api"
    /\ \/ up[r].pc \in {"load", "insert"}
       \/ up[r].pc = "done" /\ up[r].failedAt # "create"

\* C10: of the /api/upload requests that name one collection at most one gets
\* past create_collection, and every chunk stored in a collection created by
\* such a request was inserted by it and carries its url as source_url.
C10_SingleWriterPerCollection ==
    /\ \A r1, r2 \in UReqs :
          (r1 # r2 /\ PastCreate(r1) /\ PastCreate(r2)) => up[r1].coll # up[r2].coll
    /\ \A r \in UReqs :
          PastCreate(r) =>
             \A i \in 1..Len(points[up[r].coll]) :
                /\ points[up[r].coll][i].by = r
                /\ points[up[r].coll][i].source_url = up[r].url

\* two requests with different urls named one collection: one stored its
\* chunks, the other was refused at the create step
C10_Witness ==
    \E r1, r2 \in UReqs :
        /\ r1 # r2 /\ up[r1].coll = up[r2].coll
        /\ up[r1].status = 200 /\ Len(points[up[r1].coll]) >= 2
        /\ up[r2].failedAt = "create" /\ up[r2].url # up[r1].url


\* the chunks a request retrieved, submitted to the LLM and returned
Retrieved(a) == Range(a.context) \cup Range(a.llmContext) \cup Range(a.outContext)

\* C11: whatever uploads ran before or beside it, every chunk an /api/rag
\* request retrieves, submits or returns as context is stored in the default
\* collection "Wiki_2" (it was there at start-up or was ingested by a request
\* naming that collection), and none is stored in a collection of another name.
C11_ContextOnlyFromDefaultCollection ==
    \A r \in AReqs : \A ch \in Retrieved(ans[r]) :
        /\ ch \in Range(points[COLLECTION_NAME])
        /\ ch.by = 0 \/ up[ch.by].coll = COLLECTION_NAME
        /\ \A c \in Colls \ {COLLECTION_NAME} : ch \notin Range(points[c])

\* an answer returned a chunk uploaded into the default collection while
\* another collection holds chunks of another upload
C11_Witness ==
    \E r \in AReqs, c \in Colls \ {COLLECTION_NAME} :
        /\ ans[r].pc = "done" /\ ans[r].status = 200
        /\ \E ch \in Range(ans[r].outContext) : ch.by # 0
        /\ points[c] # <<>>

====
